---- MODULE Spec2Model ----
(***************************************************************************)
(* Voice -> intent -> plan backend (FLowKa scheduling).                    *)
(*                                                                         *)
(* The repository holds two revisions of lib/plan: backend/src/lib/plan.ts *)
(* (applyIntent assigns plan.tasks = nextTasks, loadPlan reads the file)   *)
(* and unnamed/part_000 (applyIntent only returns the diff, loadPlan is    *)
(* ensurePlanOnDisk).  The variable impl says which one is built.          *)
(***************************************************************************)
EXTENDS Integers, Sequences, FiniteSets, TLC

VARIABLES
    impl,      \* "lib" = backend/src/lib/plan.ts, "part" = unnamed/part_000
    tz,        \* time zone of the process: "UTC" or "DST" (America/New_York)
    plan,      \* engine: the Plan object a caller holds, [tasks |-> <<Task>>]
    call,      \* engine: the last applyIntent call, see ApplyIntentCall
    ncalls,    \* engine: number of applyIntent calls made
    disk,      \* server: ../shared/sample_plan.json
    req        \* server: the requests in flight

vars == <<impl, tz, plan, call, ncalls, disk, req>>

----------------------------------------------------------------------------
(* Bounds of the model                                                     *)

MaxCalls == 2      \* applyIntent calls explored in a row on one plan
MaxDelta == 1      \* delta_days is -MaxDelta, 0 or MaxDelta

----------------------------------------------------------------------------
(* Strings.  A name is a sequence of characters, so that toLowerCase,      *)
(* === and includes are computed.                                          *)

ToLowerChar(c) ==
    CASE c = "D" -> "d"
      [] c = "U" -> "u"
      [] c = "P" -> "p"
      [] c = "E" -> "e"
      [] c = "R" -> "r"
      [] OTHER   -> c

toLowerCase(s) == [i \in 1..Len(s) |-> ToLowerChar(s[i])]

\* String.prototype.includes: needle occurs in hay as a contiguous substring
includes(hay, needle) ==
    \E i \in 0..(Len(hay) - Len(needle)) :
        \A j \in 1..Len(needle) : hay[i + j] = needle[j]

----------------------------------------------------------------------------
(* Dates.  A date string is [f, y, m, d]: f = "ext" is YYYY-MM-DD,         *)
(* f = "basic" is YYYYMMDD, f = "text" is a string parseISO cannot read.   *)
(* A Date object is [valid, day]: day counts days since 1970-01-01 of the  *)
(* local calendar date; valid = FALSE is Invalid Date.                     *)

DateStr(y, m, d) == [f |-> "ext", y |-> y, m |-> m, d |-> d]
BasicStr(y, m, d) == [f |-> "basic", y |-> y, m |-> m, d |-> d]
Garbage == [f |-> "text", y |-> 0, m |-> 0, d |-> 0]

InvalidDate == [valid |-> FALSE, day |-> 0]

IsLeap(y) == (y % 4 = 0 /\ y % 100 # 0) \/ y % 400 = 0

DaysInMonth(y, m) ==
    CASE m = 2 -> IF IsLeap(y) THEN 29 ELSE 28
      [] m \in {4, 6, 9, 11} -> 30
      [] OTHER -> 31

\* days since 1970-01-01 of the proleptic Gregorian date y-m-d
DaysFromCivil(y, m, d) ==
    LET yy  == IF m <= 2 THEN y - 1 ELSE y
        mp  == IF m > 2 THEN m - 3 ELSE m + 9
    IN  (yy \div 400) * 146097
          + (yy % 400) * 365 + (yy % 400) \div 4 - (yy % 400) \div 100
          + (153 * mp + 2) \div 5 + d - 1
          - 719468

\* the calendar date of day number z, as <<y, m, d>>: the inverse of
\* DaysFromCivil
YearOfDay(z) ==
    CHOOSE y \in (1970 + z \div 366)..(1970 + z \div 365 + 1) :
        DaysFromCivil(y, 1, 1) <= z /\ z < DaysFromCivil(y + 1, 1, 1)

MonthOfDay(z, y) ==
    CHOOSE m \in 1..12 :
        DaysFromCivil(y, m, 1) <= z /\ z < DaysFromCivil(y, m, 1) + DaysInMonth(y, m)

CivilOfYear(z, y) == <<y, MonthOfDay(z, y), z - DaysFromCivil(y, MonthOfDay(z, y), 1) + 1>>

CivilFromDays(z) == CivilOfYear(z, YearOfDay(z))

\* date-fns parseISO: local midnight of the date, Invalid Date when the
\* string is no ISO date or names a day that does not exist
parseISO(s) ==
    IF /\ s.f \in {"ext", "basic"}
       /\ s.m \in 1..12
       /\ s.d \in 1..DaysInMonth(s.y, s.m)
    THEN [valid |-> TRUE, day |-> DaysFromCivil(s.y, s.m, s.d)]
    ELSE InvalidDate

\* date-fns addDays(date, amount): setDate(getDate() + amount) on the local date
addDays(date, amount) ==
    IF date.valid THEN [valid |-> TRUE, day |-> date.day + amount] ELSE InvalidDate

IsoOfCivil(c) == DateStr(c[1], c[2], c[3])

\* date-fns formatISO(date, {representation: "date"}) of a valid date; on
\* Invalid Date it throws RangeError, which the callers test with .valid
formatISO(date) == IsoOfCivil(CivilFromDays(date.day))

\* day of the week of a day number, 0 = Sunday (1970-01-01 was a Thursday)
DayOfWeek(day) == (day + 4) % 7

\* the first Sunday on or after a day
SundayFrom(day) == day + ((7 - DayOfWeek(day)) % 7)

\* America/New_York: daylight time (UTC-4) runs from the second Sunday of
\* March to the first Sunday of November, standard time is UTC-5; the switch
\* is at 02:00, so the midnight that opens the switch day has the old offset
NewYorkOffsetHours(day, y) ==
    IF /\ day > SundayFrom(DaysFromCivil(y, 3, 8))
       /\ day <= SundayFrom(DaysFromCivil(y, 11, 1))
    THEN 4 ELSE 5

\* hours from local midnight of `day` to the same instant in UTC
UtcOffsetHours(day) ==
    IF tz = "UTC" THEN 0 ELSE NewYorkOffsetHours(day, YearOfDay(day))

\* Date.prototype.getTime of a valid date, in hours instead of milliseconds
getTime(date) == date.day * 24 + UtcOffsetHours(date.day)

----------------------------------------------------------------------------
(* Tasks, intents, diffs (types.ts)                                        *)

Task(id, name, start, end, dependsOn, assignee) ==
    [id |-> id, name |-> name, start |-> start, end |-> end,
     dependsOn |-> dependsOn, assignee |-> assignee]

Update(before, after) ==
    [type |-> "update", taskId |-> before.id, before |-> before, after |-> after]

Create(task) == [type |-> "create", task |-> task]

\* what the switch of applyIntent ends with: an error thrown, or the changes
Thrown(msg) == [ok |-> FALSE, changes |-> <<>>, error |-> msg]
Built(changes) == [ok |-> TRUE, changes |-> changes, error |-> ""]

\* shiftDates throws (formatISO on Invalid Date) iff a date does not parse
shiftDatesThrows(task) ==
    ~parseISO(task.start).valid \/ ~parseISO(task.end).valid

\* a shiftDates that builds the task anew and lets its dependencies go
shiftDatesDropsDependsOn(task, delta) ==
    Task(task.id, task.name,
         formatISO(addDays(parseISO(task.start), delta)),
         formatISO(addDays(parseISO(task.end), delta)),
         <<>>, task.assignee)

shiftDates(task, delta) ==
    [task EXCEPT !.start = formatISO(addDays(parseISO(task.start), delta)),
                 !.end   = formatISO(addDays(parseISO(task.end), delta))]

\* the first position of a sequence of truth values that holds TRUE, 0 if none
FirstTrue(hits) ==
    IF \E i \in 1..Len(hits) : hits[i]
    THEN CHOOSE i \in 1..Len(hits) : hits[i] /\ \A j \in 1..(i - 1) : ~hits[j]
    ELSE 0

\* tasks.find(t => t.name.toLowerCase() === name.toLowerCase()): the index of
\* the first such task, 0 for undefined
findByName(tasks, name) ==
    FirstTrue([i \in 1..Len(tasks) |-> toLowerCase(tasks[i].name) = toLowerCase(name)])

\* a slip: the mode is not looked at
EffectiveDeltaIgnoresMode(intent) == intent.delta_days

\* the effective delta of shift_task_dates
EffectiveDelta(intent) ==
    IF intent.mode = "forward" THEN intent.delta_days ELSE 0 - intent.delta_days

\* case "shift_task_dates", t being tasks[i] or undefined (i = 0)
ShiftTaskDatesOf(tasks, intent, i) ==
    IF i = 0 THEN Thrown("Task not found")
    ELSE IF shiftDatesThrows(tasks[i]) THEN Thrown("RangeError")
    ELSE Built(<<Update(tasks[i], shiftDates(tasks[i], EffectiveDelta(intent)))>>)

ShiftTaskDates(tasks, intent) ==
    ShiftTaskDatesOf(tasks, intent, findByName(tasks, intent.target))

\* a slip: the whole task is shifted, not only its end
extendEndShiftsStart(t, delta) == shiftDates(t, delta)

\* { ...t, end: formatISO(addDays(parseISO(t.end), delta_days)) }
extendEnd(t, delta) ==
    [t EXCEPT !.end = formatISO(addDays(parseISO(t.end), delta))]

\* case "extend_task", t being tasks[i] or undefined (i = 0)
ExtendTaskOf(tasks, intent, i) ==
    IF i = 0 THEN Thrown("Task not found")
    ELSE IF ~parseISO(tasks[i].end).valid THEN Thrown("RangeError")
    ELSE Built(<<Update(tasks[i], extendEnd(tasks[i], intent.delta_days))>>)

ExtendTask(tasks, intent) ==
    ExtendTaskOf(tasks, intent, findByName(tasks, intent.target))

\* case "create_task"; rnd is `t_${Math.random().toString(36).slice(2, 9)}`
CreateTask(tasks, intent, rnd) ==
    Built(<<Create(Task(rnd, intent.name, intent.start, intent.end,
                        intent.dependsOn, intent.assignee))>>)

\* Math.max(0, durationDays) as addDays takes it: the fraction of a day is
\* dropped (setDate truncates); diffHours is durationDays * 24
TruncatedDays(diffHours) == IF diffHours <= 0 THEN 0 ELSE diffHours \div 24

\* (parseISO(t.end).getTime() - parseISO(t.start).getTime()) / 86400000
DurationAmount(t) ==
    TruncatedDays(getTime(parseISO(t.end)) - getTime(parseISO(t.start)))

\* { ...t, start: to_date, end: formatISO(addDays(parseISO(to_date), ...)) }
moveTo(t, to_date) ==
    [t EXCEPT !.start = to_date,
              !.end   = formatISO(addDays(parseISO(to_date), DurationAmount(t)))]

\* case "move_milestone", t being tasks[i] or undefined (i = 0); durationDays
\* is NaN when a date of t does not parse, and formatISO throws on it
MoveMilestoneOf(tasks, intent, i) ==
    IF i = 0 THEN Thrown("Milestone not found")
    ELSE IF \/ ~parseISO(tasks[i].start).valid
            \/ ~parseISO(tasks[i].end).valid
            \/ ~parseISO(intent.to_date).valid
         THEN Thrown("RangeError")
    ELSE Built(<<Update(tasks[i], moveTo(tasks[i], intent.to_date))>>)

MoveMilestone(tasks, intent) ==
    MoveMilestoneOf(tasks, intent, findByName(tasks, intent.target))

\* a slip: the name is compared, not searched
PhaseTasksExact(tasks, lowered) ==
    SelectSeq(tasks, LAMBDA t : toLowerCase(t.name) = lowered)

\* tasks.filter(t => t.name.toLowerCase().includes(lowered))
PhaseTasks(tasks, lowered) ==
    SelectSeq(tasks, LAMBDA t : includes(toLowerCase(t.name), lowered))

\* a slip: an empty match is not an error
ShiftPhaseOfNoEmptyCheck(phaseTasks, delta) ==
    IF \E k \in 1..Len(phaseTasks) : shiftDatesThrows(phaseTasks[k])
    THEN Thrown("RangeError")
    ELSE Built([k \in 1..Len(phaseTasks) |->
                   Update(phaseTasks[k], shiftDates(phaseTasks[k], delta))])

\* the loop of case "shift_phase" over phaseTasks
ShiftPhaseOf(phaseTasks, delta) ==
    IF Len(phaseTasks) = 0 THEN Thrown("No tasks matched phase")
    ELSE IF \E k \in 1..Len(phaseTasks) : shiftDatesThrows(phaseTasks[k])
         THEN Thrown("RangeError")
    ELSE Built([k \in 1..Len(phaseTasks) |->
                   Update(phaseTasks[k], shiftDates(phaseTasks[k], delta))])

ShiftPhase(tasks, intent) ==
    ShiftPhaseOf(PhaseTasks(tasks, toLowerCase(intent.target)), intent.delta_days)

\* the switch of applyIntent: the change list, or the error thrown
Switch(tasks, intent, rnd) ==
    CASE intent.action = "shift_task_dates" -> ShiftTaskDates(tasks, intent)
      [] intent.action = "extend_task"      -> ExtendTask(tasks, intent)
      [] intent.action = "create_task"      -> CreateTask(tasks, intent, rnd)
      [] intent.action = "move_milestone"   -> MoveMilestone(tasks, intent)
      [] intent.action = "shift_phase"      -> ShiftPhase(tasks, intent)

\* changes.find(c => c.type === "update" && c.taskId === t.id): upd.after,
\* or t when there is none
AfterOf(t, changes, k) == IF k = 0 THEN t ELSE changes[k].after

\* a projection that puts the created tasks in front of the plan's tasks
NextTasksCreatesFirst(tasks, changes) ==
    [k \in 1..Len(SelectSeq(changes, LAMBDA c : c.type = "create")) |->
        SelectSeq(changes, LAMBDA c : c.type = "create")[k].task]
    \o
    [i \in 1..Len(tasks) |->
        AfterOf(tasks[i], changes,
                FirstTrue([k \in 1..Len(changes) |->
                    changes[k].type = "update" /\ changes[k].taskId = tasks[i].id]))]

\* a projection that appends a created task only when its id is new to the
\* list
NextTasksSkipsKnownIds(tasks, changes) ==
    [i \in 1..Len(tasks) |->
        AfterOf(tasks[i], changes,
                FirstTrue([k \in 1..Len(changes) |->
                    changes[k].type = "update" /\ changes[k].taskId = tasks[i].id]))]
    \o
    [k \in 1..Len(SelectSeq(changes, LAMBDA c :
                     c.type = "create" /\ \A i \in 1..Len(tasks) : tasks[i].id # c.task.id)) |->
        SelectSeq(changes, LAMBDA c :
            c.type = "create" /\ \A i \in 1..Len(tasks) : tasks[i].id # c.task.id)[k].task]

\* the projection at the end of applyIntent: every task takes the after of
\* the first update record with its id, then the created tasks are appended
NextTasks(tasks, changes) ==
    [i \in 1..Len(tasks) |->
        AfterOf(tasks[i], changes,
                FirstTrue([k \in 1..Len(changes) |->
                    changes[k].type = "update" /\ changes[k].taskId = tasks[i].id]))]
    \o
    [k \in 1..Len(SelectSeq(changes, LAMBDA c : c.type = "create")) |->
        SelectSeq(changes, LAMBDA c : c.type = "create")[k].task]

\* what applyIntent leaves in plan.tasks when it returns the diff:
\* plan.ts:94 assigns nextTasks, part_000 drops nextTasks
PlanAfterApply(p, changes) ==
    IF impl = "lib" THEN [p EXCEPT !.tasks = NextTasks(p.tasks, changes)] ELSE p

\* the end of applyIntent, r being what the switch ended with
Returned(p, r) ==
    [ok |-> r.ok, changes |-> r.changes, error |-> r.error,
     plan |-> IF r.ok THEN PlanAfterApply(p, r.changes) ELSE p]

\* applyIntent(plan, intent): the diff or the error, and the plan object
\* as the call leaves it
applyIntent(p, intent, rnd) == Returned(p, Switch(p.tasks, intent, rnd))

----------------------------------------------------------------------------
(* Inputs: the plans a caller may hold and the intents the schema admits   *)
(* (part_000:3-33).  An absent dependsOn is <<>>, an absent assignee "".   *)

De   == <<"D", "e">>
UiDe == <<"U", "i", " ", "D", "e">>
Pr   == <<"P", "r">>

InitPlans ==
    { <<>>,
      \* crosses the start of daylight time, the leap day, and end < start
      << Task("t1", De,   DateStr(2024, 3, 9),  DateStr(2024, 3, 12), <<>>, "ann"),
         Task("t2", UiDe, DateStr(2024, 2, 28), DateStr(2024, 3, 1),  <<"t1">>, ""),
         Task("t3", Pr,   DateStr(2024, 3, 5),  DateStr(2024, 3, 4),  <<>>, "") >>,
      \* two tasks with the same name up to case, across the year's end
      << Task("t1", De,         DateStr(2023, 12, 31), DateStr(2024, 1, 1), <<>>, ""),
         Task("t2", <<"d", "E">>, DateStr(2024, 11, 2), DateStr(2024, 11, 4), <<>>, "") >>,
      \* dates that do not parse, and a date in the basic format
      << Task("t1", De, Garbage,              DateStr(2024, 3, 10), <<>>, ""),
         Task("t2", Pr, DateStr(2024, 3, 10), DateStr(2024, 2, 30), <<>>, ""),
         Task("t3", UiDe, BasicStr(2024, 3, 10), DateStr(2024, 3, 11), <<>>, "") >>,
      \* a task created by an earlier run
      << Task("t_a", Pr, DateStr(2024, 2, 29), DateStr(2024, 2, 29), <<>>, "") >> }

Deltas == {0 - MaxDelta, 0, MaxDelta}

\* target names: known names in another case, unknown
Targets == { <<"d", "E">>, <<"p", "r">>, <<"z">> }

\* phase terms: a term, the term after a blank, the empty term, unknown
PhaseTargets == { <<"D", "e">>, <<" ", "d", "e">>, <<>>, <<"z">> }

ToDates == { DateStr(2024, 6, 1), BasicStr(2024, 3, 8), Garbage }

\* Math.random().toString(36).slice(2, 9) can repeat: two draws suffice
RandomIds == { "t_a", "t_b" }

ShiftTaskDatesIntents ==
    { [action |-> "shift_task_dates", target |-> t, delta_days |-> d, mode |-> m] :
        t \in Targets, d \in Deltas, m \in {"forward", "backward"} }

ExtendTaskIntents ==
    { [action |-> "extend_task", target |-> t, delta_days |-> d] :
        t \in Targets, d \in Deltas }

CreateTaskIntents ==
    { [action |-> "create_task", name |-> n, start |-> s, end |-> s,
       dependsOn |-> dep, assignee |-> ""] :
        n \in {Pr}, s \in {DateStr(2024, 4, 1), Garbage}, dep \in {<<>>, <<"t1">>} }

MoveMilestoneIntents ==
    { [action |-> "move_milestone", target |-> t, to_date |-> d] :
        t \in Targets, d \in ToDates }

ShiftPhaseIntents ==
    { [action |-> "shift_phase", target |-> t, delta_days |-> d] :
        t \in PhaseTargets, d \in Deltas }

----------------------------------------------------------------------------
(* The engine on its own: a caller applies intents to the plan it holds    *)

NoCall == [made |-> FALSE]

NoFile == [kind |-> "missing", tasks |-> <<>>, by |-> 0]

InitEngine ==
    /\ impl \in {"lib", "part"}
    /\ tz \in {"UTC", "DST"}
    /\ plan \in {[tasks |-> t] : t \in InitPlans}
    /\ call = NoCall
    /\ ncalls = 0
    /\ disk = NoFile
    /\ req = <<>>

\* one call applyIntent(plan, intent); call keeps the plan's tasks before
\* and after it and what it returned or threw
CallReturns(intent, rnd, r) ==
    /\ call' = [made |-> TRUE, intent |-> intent, rnd |-> rnd,
                before |-> plan.tasks, ok |-> r.ok, changes |-> r.changes,
                error |-> r.error, after |-> r.plan.tasks]
    /\ plan' = r.plan

ApplyIntentCall(intent, rnd) ==
    /\ ncalls < MaxCalls
    /\ CallReturns(intent, rnd, applyIntent(plan, intent, rnd))
    /\ ncalls' = ncalls + 1
    /\ UNCHANGED <<impl, tz, disk, req>>

CallShiftTaskDates == \E i \in ShiftTaskDatesIntents : ApplyIntentCall(i, "")
CallExtendTask     == \E i \in ExtendTaskIntents : ApplyIntentCall(i, "")
CallCreateTask     == \E i \in CreateTaskIntents, rnd \in RandomIds : ApplyIntentCall(i, rnd)
CallMoveMilestone  == \E i \in MoveMilestoneIntents : ApplyIntentCall(i, "")
CallShiftPhase     == \E i \in ShiftPhaseIntents : ApplyIntentCall(i, "")

NextEngine ==
    \/ CallShiftTaskDates
    \/ CallExtendTask
    \/ CallCreateTask
    \/ CallMoveMilestone
    \/ CallShiftPhase

SpecEngine == InitEngine /\ [][NextEngine]_vars

----------------------------------------------------------------------------
(* The server: POST /voice-intent (voice-intent.ts:35-107) and, in the     *)
(* part_000 revision, GET /plan (server.ts:12-15), over the plan file.     *)
(* Node runs each handler up to its next await without interruption, so    *)
(* one action is one such stretch; fs.writeFile opens the file truncating  *)
(* it and writes the content later, which are two actions.                 *)

MaxReq == 2        \* requests the server takes

Reqs == 1..MaxReq

\* the file: kind "missing", "empty" (opened for writing, nothing written
\* yet), "plan" (JSON of tasks) or "corrupt" (no JSON); by = the request
\* whose write made it so, 0 for none
File(kind, tasks, by) == [kind |-> kind, tasks |-> tasks, by |-> by]

\* the stand-in for default-plan.js (the dataset itself is not in src)
defaultPlan ==
    [tasks |-> << Task("t1", De, DateStr(2024, 3, 4), DateStr(2024, 3, 8), <<>>, "") >>]

\* the plans the file may hold when the server starts
ServerPlans ==
    { << Task("t1", De,   DateStr(2024, 3, 9),  DateStr(2024, 3, 12), <<>>, "ann"),
         Task("t2", UiDe, DateStr(2024, 2, 28), DateStr(2024, 3, 1),  <<"t1">>, "") >> }

\* the intents the LLM step may hand to the engine
ServerIntents ==
    { [action |-> "shift_task_dates", target |-> <<"d", "E">>, delta_days |-> 1,
       mode |-> "forward"],
      [action |-> "extend_task", target |-> <<"z">>, delta_days |-> 1],
      [action |-> "create_task", name |-> Pr, start |-> DateStr(2024, 4, 1),
       end |-> DateStr(2024, 4, 1), dependsOn |-> <<>>, assignee |-> ""],
      [action |-> "shift_phase", target |-> <<"D", "e">>, delta_days |-> 0 - 1] }

NoPlan == [tasks |-> <<>>]

\* applied: "ok" once applyIntent has returned the diff, "threw" once it has
\* thrown; seeded, saved: the request has called writeFile from
\* ensurePlanOnDisk, from savePlan
IdleReq ==
    [kind |-> "", pc |-> "idle", plan |-> NoPlan, loaded |-> <<>>, afterSave |-> FALSE,
     intent |-> NoCall, changes |-> <<>>, status |-> 0, body |-> NoPlan,
     applied |-> "", seeded |-> FALSE, saved |-> FALSE]

\* none of ServerIntents measures a span in milliseconds (move_milestone is
\* the one action that does), so the handler runs the same in every zone
Init ==
    /\ impl \in {"lib", "part"}
    /\ tz = "UTC"
    /\ plan = NoPlan
    /\ call = NoCall
    /\ ncalls = 0
    /\ disk \in {File("missing", <<>>, 0)} \cup {File("plan", t, 0) : t \in ServerPlans}
    /\ req = [r \in Reqs |-> IdleReq]

Finish(r, status, body) ==
    req' = [req EXCEPT ![r].pc = "done", ![r].status = status, ![r].body = body]

\* voice-intent.ts:37-38: no audio uploaded
PostNoAudio(r) ==
    /\ req[r].pc = "idle"
    /\ req' = [req EXCEPT ![r].kind = "voice", ![r].pc = "done", ![r].status = 400]
    /\ UNCHANGED <<impl, tz, plan, call, ncalls, disk>>

\* voice-intent.ts:37-46: audio present, the transcription is requested
PostAudio(r) ==
    /\ req[r].pc = "idle"
    /\ req' = [req EXCEPT ![r].kind = "voice", ![r].pc = "transcribe"]
    /\ UNCHANGED <<impl, tz, plan, call, ncalls, disk>>

\* voice-intent.ts:42-51: the transcript arrives, loadPlan starts reading
Transcribed(r) ==
    /\ req[r].pc = "transcribe"
    /\ req' = [req EXCEPT ![r].pc = "read"]
    /\ UNCHANGED <<impl, tz, plan, call, ncalls, disk>>

\* voice-intent.ts:42,103-105: the transcription call rejects
TranscribeFails(r) ==
    /\ req[r].pc = "transcribe"
    /\ Finish(r, 500, NoPlan)
    /\ UNCHANGED <<impl, tz, plan, call, ncalls, disk>>

\* server.ts:12-13: GET /plan calls ensurePlanOnDisk (a route of the
\* part_000 revision only)
GetPlan(r) ==
    /\ impl = "part"
    /\ req[r].pc = "idle"
    /\ req' = [req EXCEPT ![r].kind = "get", ![r].pc = "read"]
    /\ UNCHANGED <<impl, tz, plan, call, ncalls, disk>>

\* a save has touched the file: some request has opened it for savePlan
SaveBegun == \E q \in Reqs : req[q].kind = "voice" /\
                 (req[q].pc = "save_write" \/ (req[q].pc = "done" /\ req[q].status = 200))

\* the plan is in hand: POST goes on to the LLM, GET answers
Loaded(r, p) ==
    IF req[r].kind = "voice"
    THEN req' = [req EXCEPT ![r].pc = "llm", ![r].plan = p, ![r].loaded = p.tasks,
                            ![r].afterSave = SaveBegun]
    ELSE req' = [req EXCEPT ![r].pc = "done", ![r].status = 200, ![r].body = p,
                            ![r].loaded = p.tasks, ![r].afterSave = SaveBegun]

\* fs.readFile + JSON.parse succeed (plan.ts:14-15, part_000:55-56)
ReadPlan(r) ==
    /\ req[r].pc = "read"
    /\ disk.kind = "plan"
    /\ Loaded(r, [tasks |-> disk.tasks])
    /\ UNCHANGED <<impl, tz, plan, call, ncalls, disk>>

\* plan.ts:14-15: readFile or JSON.parse throws, the handler answers 500
ReadThrows(r) ==
    /\ req[r].pc = "read"
    /\ disk.kind # "plan"
    /\ impl = "lib"
    /\ Finish(r, 500, NoPlan)
    /\ UNCHANGED <<impl, tz, plan, call, ncalls, disk>>

\* part_000:57-59: readFile or JSON.parse throws, the catch goes on to seed
ReadCaught(r) ==
    /\ req[r].pc = "read"
    /\ disk.kind # "plan"
    /\ impl = "part"
    /\ req' = [req EXCEPT ![r].pc = "seed_open"]
    /\ UNCHANGED <<impl, tz, plan, call, ncalls, disk>>

\* What a write of `tasks` leaves in a file another write has filled since
\* this one opened it: its bytes overlay the other's, which is this content
\* or, when it is the shorter one, no JSON.
Written(tasks, r) ==
    IF disk.kind \in {"plan", "corrupt"} /\ (disk.kind = "corrupt" \/ disk.tasks # tasks)
    THEN {File("plan", tasks, r), File("corrupt", <<>>, r)}
    ELSE {File("plan", tasks, r)}

\* part_000:59-60: mkdir, and writeFile opens the file, truncating it
SeedOpen(r) ==
    /\ req[r].pc = "seed_open"
    /\ disk' = File("empty", <<>>, disk.by)
    /\ req' = [req EXCEPT ![r].pc = "seed_write", ![r].seeded = TRUE]
    /\ UNCHANGED <<impl, tz, plan, call, ncalls>>

\* part_000:60-61: the default plan is written and returned
SeedWrite(r) ==
    /\ req[r].pc = "seed_write"
    /\ disk' \in Written(defaultPlan.tasks, 0)
    /\ Loaded(r, defaultPlan)
    /\ UNCHANGED <<impl, tz, plan, call, ncalls>>

\* voice-intent.ts:77-78: the LLM returned no tool call
LlmNoToolCall(r) ==
    /\ req[r].pc = "llm"
    /\ Finish(r, 500, NoPlan)
    /\ UNCHANGED <<impl, tz, plan, call, ncalls, disk>>

\* voice-intent.ts:81-84: the tool arguments fail intentSchema
SchemaRejects(r) ==
    /\ req[r].pc = "llm"
    /\ Finish(r, 400, NoPlan)
    /\ UNCHANGED <<impl, tz, plan, call, ncalls, disk>>

\* a handler that goes on to savePlan whatever applyIntent did
AppliedSavesAnyway(r, intent, res) ==
    req' = [req EXCEPT ![r].pc = "save_open", ![r].intent = intent,
                       ![r].applied = IF res.ok THEN "ok" ELSE "threw",
                       ![r].changes = res.changes, ![r].plan = res.plan]

\* voice-intent.ts:85-95: the intent is valid; applyIntent throws (422) or
\* returns the diff, and savePlan(plan) is called with the plan as it is then
Applied(r, intent, res) ==
    IF res.ok
    THEN req' = [req EXCEPT ![r].pc = "save_open", ![r].intent = intent,
                            ![r].applied = "ok",
                            ![r].changes = res.changes, ![r].plan = res.plan]
    ELSE req' = [req EXCEPT ![r].pc = "done", ![r].intent = intent,
                            ![r].applied = "threw", ![r].status = 422]

Apply(r) ==
    /\ req[r].pc = "llm"
    /\ \E intent \in ServerIntents, rnd \in RandomIds :
         Applied(r, intent, applyIntent(req[r].plan, intent, rnd))
    /\ UNCHANGED <<impl, tz, plan, call, ncalls, disk>>

\* plan.ts:20, part_000:71: writeFile opens the file, truncating it
SaveOpen(r) ==
    /\ req[r].pc = "save_open"
    /\ disk' = File("empty", <<>>, disk.by)
    /\ req' = [req EXCEPT ![r].pc = "save_write", ![r].saved = TRUE]
    /\ UNCHANGED <<impl, tz, plan, call, ncalls>>

\* plan.ts:20, voice-intent.ts:95-102: the content is written, the handler
\* answers with the diff and updatedPlan: plan
SaveWrite(r) ==
    /\ req[r].pc = "save_write"
    /\ disk' \in Written(req[r].plan.tasks, r)
    /\ Finish(r, 200, req[r].plan)
    /\ UNCHANGED <<impl, tz, plan, call, ncalls>>

Next ==
    \E r \in Reqs :
        \/ PostNoAudio(r)
        \/ PostAudio(r)
        \/ Transcribed(r)
        \/ TranscribeFails(r)
        \/ GetPlan(r)
        \/ ReadPlan(r)
        \/ ReadThrows(r)
        \/ ReadCaught(r)
        \/ SeedOpen(r)
        \/ SeedWrite(r)
        \/ LlmNoToolCall(r)
        \/ SchemaRejects(r)
        \/ Apply(r)
        \/ SaveOpen(r)
        \/ SaveWrite(r)

Spec == Init /\ [][Next]_vars

----------------------------------------------------------------------------
(* Vocabulary of the properties                                            *)

IsCall(action) == call.made /\ call.intent.action = action

\* some task of the plan has the name, ignoring case
Resolvable(tasks, name) ==
    \E i \in 1..Len(tasks) : toLowerCase(tasks[i].name) = toLowerCase(name)

\* the positions of the tasks whose lowercased name contains the lowercased term
MatchSet(tasks, term) ==
    { i \in 1..Len(tasks) : includes(toLowerCase(tasks[i].name), toLowerCase(term)) }

\* the k-th smallest element of a set of numbers
Kth(S, k) == CHOOSE i \in S : Cardinality({j \in S : j < i}) = k - 1

Parses(s) == parseISO(s).valid
DayOf(s) == parseISO(s).day

\* String.prototype.trim, for blanks
RECURSIVE TrimLeft(_)
TrimLeft(s) == IF s # <<>> /\ Head(s) = " " THEN TrimLeft(Tail(s)) ELSE s
RECURSIVE TrimRight(_)
TrimRight(s) ==
    IF s # <<>> /\ s[Len(s)] = " " THEN TrimRight(SubSeq(s, 1, Len(s) - 1)) ELSE s
Trim(s) == TrimRight(TrimLeft(s))

Ids(tasks) == {tasks[i].id : i \in 1..Len(tasks)}
DistinctIds(tasks) == \A i, j \in 1..Len(tasks) : tasks[i].id = tasks[j].id => i = j

----------------------------------------------------------------------------
(* Properties of applyIntent, under SpecEngine                             *)

\* C2: applyIntent never mutates the plan it is given: after every call,
\* successful or failed, plan.tasks is the sequence of tasks it was before.
C2_NeverMutatesPlan ==
    call.made => call.after = call.before

\* C3: a failed call raises an error, returns no diff and leaves the plan's
\* task list as it was; a call fails when no task has the target name
\* (shift_task_dates, extend_task, move_milestone), when no task matches the
\* phase term (shift_phase), and when a date it has to parse does not parse.
C3_FailedCallLeavesPlan ==
    call.made =>
      LET i  == call.intent
          a  == i.action
          ts == call.before
          t  == ts[findByName(ts, i.target)]
      IN
      /\ ~call.ok => /\ call.error # ""
                     /\ call.changes = <<>>
                     /\ call.after = call.before
      /\ call.ok => call.error = ""
      /\ a \in {"shift_task_dates", "extend_task", "move_milestone"}
            /\ ~Resolvable(ts, i.target) => ~call.ok
      /\ a = "shift_phase" /\ MatchSet(ts, i.target) = {} => ~call.ok
      /\ a \in {"shift_task_dates", "move_milestone"} /\ Resolvable(ts, i.target)
            /\ (~Parses(t.start) \/ ~Parses(t.end)) => ~call.ok
      /\ a = "extend_task" /\ Resolvable(ts, i.target) /\ ~Parses(t.end) => ~call.ok
      /\ a = "move_milestone" /\ Resolvable(ts, i.target) /\ ~Parses(i.to_date)
            => ~call.ok
      /\ a = "shift_phase"
            /\ (\E k \in MatchSet(ts, i.target) : ~Parses(ts[k].start) \/ ~Parses(ts[k].end))
            => ~call.ok

\* C3 happens: a call failed on a plan that holds tasks, once for a target
\* that is not there and once for a date that does not parse
C3_Witness ==
    /\ call.made /\ ~call.ok /\ call.before # <<>>
    /\ call.error = "RangeError"
    /\ call.intent.action = "shift_phase"

C3_WitnessNotFound ==
    /\ call.made /\ ~call.ok /\ call.before # <<>>
    /\ call.error = "Task not found"

\* C4: create_task generates an id different from the id of every task in
\* the plan, so a plan with pairwise distinct ids keeps them distinct.
C4_CreateIdFresh ==
    /\ IsCall("create_task") /\ call.ok =>
          call.changes[1].task.id \notin Ids(call.before)
    /\ call.made /\ DistinctIds(call.before) => DistinctIds(call.after)

\* C6: shift_task_dates on a resolvable target (whose dates parse) emits
\* exactly one update whose after has start = before.start + e and
\* end = before.end + e, e = +delta_days forward and -delta_days backward.
C6_ShiftTaskDates ==
    IsCall("shift_task_dates") /\ Resolvable(call.before, call.intent.target) =>
      LET i == call.intent
          t == call.before[findByName(call.before, i.target)]
          e == IF i.mode = "forward" THEN i.delta_days ELSE 0 - i.delta_days
      IN  Parses(t.start) /\ Parses(t.end) =>
            /\ call.ok
            /\ Len(call.changes) = 1
            /\ call.changes[1].type = "update"
            /\ call.changes[1].after.start = formatISO([valid |-> TRUE, day |-> DayOf(t.start) + e])
            /\ call.changes[1].after.end = formatISO([valid |-> TRUE, day |-> DayOf(t.end) + e])
            /\ DayOf(call.changes[1].after.start) = DayOf(call.changes[1].before.start) + e
            /\ DayOf(call.changes[1].after.end) = DayOf(call.changes[1].before.end) + e

\* C6 happens: a backward shift by a negative delta moved a task later,
\* over the end of February of a leap year
C6_Witness ==
    /\ IsCall("shift_task_dates") /\ call.ok
    /\ call.intent.mode = "backward" /\ call.intent.delta_days < 0
    /\ call.changes[1].before.start = DateStr(2024, 2, 29)
    /\ call.changes[1].after.start = DateStr(2024, 3, 1)

\* C7: extend_task on a resolvable target (whose end parses) emits exactly
\* one update whose after has the start of before and end = before.end +
\* delta_days; a negative delta_days is accepted, also when it leaves the
\* end before the start.
C7_ExtendTask ==
    IsCall("extend_task") /\ Resolvable(call.before, call.intent.target) =>
      LET i == call.intent
          t == call.before[findByName(call.before, i.target)]
      IN  Parses(t.end) =>
            /\ call.ok
            /\ Len(call.changes) = 1
            /\ call.changes[1].type = "update"
            /\ call.changes[1].after.start = t.start
            /\ call.changes[1].after.end = formatISO([valid |-> TRUE, day |-> DayOf(t.end) + i.delta_days])
            /\ DayOf(call.changes[1].after.end) = DayOf(call.changes[1].before.end) + i.delta_days

\* C7 happens: a negative delta left a task that had start <= end with its
\* end before its start
C7_Witness ==
    /\ IsCall("extend_task") /\ call.ok /\ call.intent.delta_days < 0
    /\ Parses(call.changes[1].before.start)
    /\ DayOf(call.changes[1].before.start) <= DayOf(call.changes[1].before.end)
    /\ DayOf(call.changes[1].after.end) < DayOf(call.changes[1].after.start)

\* C8: move_milestone on a resolvable target emits exactly one update whose
\* after has start = to_date and end = to_date + max(0, span), span being
\* (original end - original start) in days.
C8_MoveMilestone ==
    IsCall("move_milestone") /\ Resolvable(call.before, call.intent.target) =>
      LET i    == call.intent
          t    == call.before[findByName(call.before, i.target)]
          span == DayOf(t.end) - DayOf(t.start)
      IN  Parses(t.start) /\ Parses(t.end) /\ Parses(i.to_date) =>
            /\ call.ok
            /\ Len(call.changes) = 1
            /\ call.changes[1].type = "update"
            /\ call.changes[1].after.start = i.to_date
            /\ DayOf(call.changes[1].after.end) =
                  DayOf(i.to_date) + (IF span > 0 THEN span ELSE 0)

\* C9: shift_phase emits one update for each task whose lowercased name
\* contains the lowercased target and none for another task, in plan order,
\* each with start and end shifted by delta_days; it fails when no task
\* matches (and succeeds when some do and their dates parse).
C9_ShiftPhase ==
    IsCall("shift_phase") =>
      LET i  == call.intent
          ts == call.before
          M  == MatchSet(ts, i.target)
      IN
      /\ M = {} => ~call.ok
      /\ M # {} /\ (\A k \in M : Parses(ts[k].start) /\ Parses(ts[k].end)) => call.ok
      /\ call.ok =>
           /\ Len(call.changes) = Cardinality(M)
           /\ \A k \in 1..Len(call.changes) :
                LET c == call.changes[k] IN
                /\ c.type = "update"
                /\ c.before = ts[Kth(M, k)]
                /\ c.taskId = ts[Kth(M, k)].id
                /\ DayOf(c.after.start) = DayOf(c.before.start) + i.delta_days
                /\ DayOf(c.after.end) = DayOf(c.before.end) + i.delta_days

\* C9 happens: a term matched two of three tasks, not the first two
C9_Witness ==
    /\ IsCall("shift_phase") /\ call.ok
    /\ Len(call.before) = 3 /\ Len(call.changes) = 2
    /\ call.intent.delta_days # 0
    /\ call.changes[1].taskId = "t1" /\ call.changes[2].taskId = "t2"
    /\ call.intent.target = <<"D", "e">>

\* C10: shift_phase trims the target before matching: a target with blanks
\* around it gives what the same target without them gives.
C10_PhaseTargetTrimmed ==
    IsCall("shift_phase") =>
      LET trimmed == [call.intent EXCEPT !.target = Trim(call.intent.target)]
      IN  /\ call.ok = ShiftPhase(call.before, trimmed).ok
          /\ call.changes = ShiftPhase(call.before, trimmed).changes

----------------------------------------------------------------------------
(* Properties of the voice-intent handler, under Spec                      *)

\* a diff applied to a task list: every task an update record names is
\* replaced by the record's after, every created task is appended
Projected(tasks, changes) ==
    LET upd(t) == {k \in 1..Len(changes) :
                      changes[k].type = "update" /\ changes[k].taskId = t.id}
        new    == SelectSeq(changes, LAMBDA c : c.type = "create")
    IN  [i \in 1..Len(tasks) |->
            IF upd(tasks[i]) = {} THEN tasks[i]
            ELSE changes[Kth(upd(tasks[i]), 1)].after]
        \o [k \in 1..Len(new) |-> new[k].task]

\* the request got its diff and called savePlan
Saving(r) ==
    /\ req[r].kind = "voice"
    /\ \/ req[r].pc \in {"save_open", "save_write"}
       \/ req[r].pc = "done" /\ req[r].status = 200

Succeeded(r) == req[r].kind = "voice" /\ req[r].pc = "done" /\ req[r].status = 200

\* C1: for every successful request the plan passed to savePlan and returned
\* as updatedPlan is the loaded plan with the returned diff applied.
C1_SavedPlanHasDiffApplied ==
    \A r \in Reqs :
        /\ Saving(r) => req[r].plan.tasks = Projected(req[r].loaded, req[r].changes)
        /\ Succeeded(r) => req[r].body.tasks = Projected(req[r].loaded, req[r].changes)

\* C5: when two requests both load the plan before either saves, the stored
\* plan after both complete reflects only the intent of the request that
\* saved last (here for the runs that leave a readable plan in the file).
C5_LastWriterWins ==
    \A r1, r2 \in Reqs :
        /\ r1 # r2 /\ Succeeded(r1) /\ Succeeded(r2)
        /\ ~req[r1].afterSave /\ ~req[r2].afterSave
        /\ disk.kind = "plan" /\ disk.by = r2
        => disk.tasks = Projected(req[r2].loaded, req[r2].changes)

----------------------------------------------------------------------------
(* Properties of the diff and of its projection, under SpecEngine          *)

Updates(changes) == SelectSeq(changes, LAMBDA c : c.type = "update")
Creates(changes) == SelectSeq(changes, LAMBDA c : c.type = "create")

\* C11: every diff a call returns has the shape of its action: exactly one
\* update record and no create record for shift_task_dates, extend_task and
\* move_milestone; exactly one create record and no update record for
\* create_task; only update records, at most one for each task id, for
\* shift_phase.
C11_DiffShape ==
    call.made /\ call.ok =>
      /\ call.intent.action \in {"shift_task_dates", "extend_task", "move_milestone"}
            => Len(Updates(call.changes)) = 1 /\ Len(call.changes) = 1
      /\ call.intent.action = "create_task"
            => Len(Creates(call.changes)) = 1 /\ Len(call.changes) = 1
      /\ call.intent.action = "shift_phase"
            => /\ Len(Updates(call.changes)) = Len(call.changes)
               /\ \A j, k \in 1..Len(call.changes) :
                      call.changes[j].taskId = call.changes[k].taskId => j = k

\* the update records of a diff that name the task's id
UpdatesOf(t, changes) ==
    {k \in 1..Len(changes) : changes[k].type = "update" /\ changes[k].taskId = t.id}

\* C12: the projection of a returned diff onto the task list keeps every
\* task of the list at its index, with its id: a task an update record names
\* is replaced by that record's after, any other task is unchanged; the
\* created tasks follow at the end in diff order; the list grows by one for
\* create_task and by nothing for the other actions. Where applyIntent
\* assigns the projection (plan.ts), this is the plan the next call starts
\* from.
C12_ProjectionKeepsPositions ==
    call.made /\ call.ok =>
      /\ Len(NextTasks(call.before, call.changes))
            = Len(call.before) + Len(Creates(call.changes))
      /\ Len(Creates(call.changes)) = IF call.intent.action = "create_task" THEN 1 ELSE 0
      /\ \A i \in 1..Len(call.before) :
            /\ NextTasks(call.before, call.changes)[i].id = call.before[i].id
            /\ UpdatesOf(call.before[i], call.changes) = {}
                  => NextTasks(call.before, call.changes)[i] = call.before[i]
            /\ UpdatesOf(call.before[i], call.changes) # {}
                  => \E k \in UpdatesOf(call.before[i], call.changes) :
                        NextTasks(call.before, call.changes)[i] = call.changes[k].after
      /\ \A k \in 1..Len(Creates(call.changes)) :
            NextTasks(call.before, call.changes)[Len(call.before) + k]
                = Creates(call.changes)[k].task
      /\ impl = "lib" => call.after = NextTasks(call.before, call.changes)

\* a second call creates a task in a three-task plan that the first call
\* had updated
C12_Witness ==
    /\ IsCall("create_task") /\ call.ok /\ ncalls = 2 /\ impl = "lib"
    /\ Len(call.before) = 3 /\ Len(call.after) = 4
    /\ call.before \notin InitPlans
    /\ call.after[4] = call.changes[1].task

\* the diff of the last call projected onto the plan it was computed from,
\* and projected once more onto the result
ProjectedOnce == NextTasks(call.before, call.changes)
ProjectedTwice == NextTasks(ProjectedOnce, call.changes)

\* C13 (as claimed): projecting the same create_task diff twice yields two
\* duplicate tasks with different ids.
C13_TwiceGivesDifferentIds ==
    IsCall("create_task") /\ call.ok =>
      /\ Len(ProjectedTwice) = Len(call.before) + 2
      /\ ProjectedTwice[Len(call.before) + 1].id # ProjectedTwice[Len(call.before) + 2].id
      /\ [ProjectedTwice[Len(call.before) + 1] EXCEPT !.id = ""]
            = [ProjectedTwice[Len(call.before) + 2] EXCEPT !.id = ""]

\* C13: projecting the same create_task diff twice appends the created task
\* twice: the list ends with two equal tasks, both with the id the diff
\* records, after the tasks it had.
C13_TwiceAppendsSameTask ==
    IsCall("create_task") /\ call.ok =>
      /\ Len(ProjectedTwice) = Len(call.before) + 2
      /\ ProjectedTwice[Len(call.before) + 1] = call.changes[1].task
      /\ ProjectedTwice[Len(call.before) + 2] = call.changes[1].task
      /\ SubSeq(ProjectedTwice, 1, Len(call.before)) = call.before

\* a create_task diff for a plan with tasks, projected twice
C13_Witness ==
    /\ IsCall("create_task") /\ call.ok /\ Len(call.before) = 2
    /\ Len(ProjectedOnce) = 3 /\ Len(ProjectedTwice) = 4
    /\ ProjectedTwice[3].id = ProjectedTwice[4].id
    /\ ProjectedTwice[3].id \notin Ids(call.before)

\* C14: intent application is deterministic: when a call is followed by a
\* call with the same intent on a plan with the same tasks, the second call
\* returns the same diff (or fails like the first) and leaves the same plan.
C14_Deterministic ==
    [][ (call.made /\ call'.made
            /\ call'.intent = call.intent /\ call'.before = call.before)
        => /\ call'.ok = call.ok
           /\ call'.changes = call.changes
           /\ call'.after = call.after ]_vars

\* the intent that undoes a shift: the same target, backward by the same
\* delta_days for shift_task_dates, the opposite delta_days for shift_phase
ShiftBack(intent) ==
    IF intent.action = "shift_task_dates"
    THEN [intent EXCEPT !.mode = "backward"]
    ELSE [intent EXCEPT !.delta_days = 0 - @]

\* the shift back applied to the plan the last call's diff projects to
ShiftedBack == Switch(ProjectedOnce, ShiftBack(call.intent), "")
RoundTrip == NextTasks(ProjectedOnce, ShiftedBack.changes)

\* the same calendar date, or the same string when it is no date
SameDate(a, b) == a = b \/ (Parses(a) /\ Parses(b) /\ DayOf(a) = DayOf(b))

\* C15: a shift is undone by the opposite shift: after a successful
\* shift_task_dates forward by d, shift_task_dates backward by d for the
\* same target succeeds and leaves every task of the plan on its original
\* start and end; likewise shift_phase by d followed by shift_phase by -d.
C15_ShiftRoundTrip ==
    /\ call.made /\ call.ok
    /\ \/ call.intent.action = "shift_task_dates" /\ call.intent.mode = "forward"
       \/ call.intent.action = "shift_phase"
    => /\ ShiftedBack.ok
       /\ Len(RoundTrip) = Len(call.before)
       /\ \A i \in 1..Len(call.before) :
            /\ SameDate(RoundTrip[i].start, call.before[i].start)
            /\ SameDate(RoundTrip[i].end, call.before[i].end)

----------------------------------------------------------------------------
(* Properties of the plan file, under Spec                                 *)

Failed(r) == req[r].kind = "voice" /\ req[r].pc = "done" /\ req[r].status # 200

\* applyIntent has returned a diff for the request's intent
ApplyIntentReturned(r) == req[r].intent # NoCall /\ req[r].applied = "ok"

\* C16 (as claimed): savePlan is called only after applyIntent has returned
\* successfully, and a request that ends 400 or 422 has written nothing to
\* the plan file.
C16_FailedRequestWritesNothing ==
    \A r \in Reqs :
        /\ req[r].saved => ApplyIntentReturned(r)
        /\ Failed(r) /\ req[r].status \in {400, 422}
              => ~req[r].saved /\ ~req[r].seeded

\* C16: savePlan is called only after applyIntent has returned successfully:
\* a request that fails has never called savePlan, and the file's content
\* comes from savePlan only for a request that got its diff. The one write a
\* failed request can have made is ensurePlanOnDisk's, of the default plan,
\* in the revision whose loadPlan is ensurePlanOnDisk.
C16_SaveOnlyAfterApply ==
    \A r \in Reqs :
        /\ req[r].saved => ApplyIntentReturned(r) /\ ~Failed(r)
        /\ Failed(r) => ~req[r].saved
        /\ disk.by = r => req[r].saved
        /\ req[r].seeded => impl = "part"
        /\ disk.by = 0 /\ disk.kind = "plan"
              => disk.tasks = defaultPlan.tasks \/ disk.tasks \in ServerPlans

\* a request whose loadPlan seeded the file and whose intent applyIntent
\* refused ended 422; the file holds the default plan
C16_Witness ==
    \E r \in Reqs :
        /\ Failed(r) /\ req[r].status = 422 /\ req[r].seeded /\ ~req[r].saved
        /\ disk = File("plan", defaultPlan.tasks, 0)

----------------------------------------------------------------------------
(* Properties of name resolution and of update records, under SpecEngine   *)

SingleTarget == {"shift_task_dates", "extend_task", "move_milestone"}

\* the positions of the tasks whose name is the target, ignoring case
NamedSet(tasks, name) ==
    { i \in 1..Len(tasks) : toLowerCase(tasks[i].name) = toLowerCase(name) }

\* C17: shift_task_dates, extend_task and move_milestone resolve their
\* target by an exact match of the name ignoring case and take the first
\* such task in plan order: a call fails when no task has the name, and a
\* successful call updates the first task that has it and leaves every other
\* task, later tasks of the same name included, unchanged in the projected
\* plan.
C17_FirstMatchOnly ==
    call.made /\ call.intent.action \in SingleTarget =>
      /\ NamedSet(call.before, call.intent.target) = {} => ~call.ok
      /\ call.ok =>
            /\ call.changes[1].before
                  = call.before[Kth(NamedSet(call.before, call.intent.target), 1)]
            /\ \A j \in 1..Len(call.before) :
                  NextTasks(call.before, call.changes)[j]
                    = IF j = Kth(NamedSet(call.before, call.intent.target), 1)
                      THEN call.changes[1].after
                      ELSE call.before[j]

\* C18: every update record a call returns names the id of its before, its
\* before is a task of the plan the call was given, and its after is that
\* task with start and end replaced: id, name, dependsOn and assignee are
\* the before's.
C18_UpdateRecord ==
    call.made /\ call.ok =>
      \A k \in 1..Len(call.changes) :
          call.changes[k].type = "update" =>
            /\ call.changes[k].taskId = call.changes[k].before.id
            /\ \E i \in 1..Len(call.before) : call.before[i] = call.changes[k].before
            /\ call.changes[k].after
                  = [call.changes[k].before EXCEPT
                        !.start = call.changes[k].after.start,
                        !.end = call.changes[k].after.end]

\* a shift_phase call returned two update records that change the dates of
\* a task with dependencies and of a task with an assignee
C18_Witness ==
    /\ IsCall("shift_phase") /\ call.ok /\ Len(call.changes) = 2
    /\ \A k \in 1..2 : call.changes[k].after.start # call.changes[k].before.start
    /\ \E k \in 1..2 : call.changes[k].before.dependsOn # <<>>
    /\ \E k \in 1..2 : call.changes[k].before.assignee # ""

----------------------------------------------------------------------------
(* Properties of ensurePlanOnDisk, under Spec                              *)

\* the step is a writeFile of ensurePlanOnDisk: its open or its write
SeedStep ==
    \E r \in Reqs : req[r].pc \in {"seed_open", "seed_write"} /\ req'[r].pc # req[r].pc

\* C19: the plan file is seeded with the default plan only when it is not
\* there: while the file holds a plan that savePlan wrote, no interleaving
\* of requests brings ensurePlanOnDisk to open or write the file.
C19_NoSeedOverSavedPlan ==
    [][ (disk.kind = "plan" /\ disk.by # 0) => ~SeedStep ]_vars

====
